---- MODULE Spec2Model ----
(***************************************************************************)
(* cw_parser: normalisation of CloudWatch log lines (src/src/lib.rs).      *)
(*                                                                         *)
(* A text payload is a sequence of one-character strings.  The library is  *)
(* stateless; the state below is one call on it: the function called (fn), *)
(* its argument (arg), whether it has returned (pc), its result (ret), the *)
(* recognizers a try_parse_cloudwatch_log call ran, in order (tried), and, *)
(* for a parse call, the records that reached try_parse_cloudwatch_log     *)
(* (dispatched), the records written to stdout by println! (printed) and   *)
(* the per-record results of the map stage before flatten (mapped).        *)
(***************************************************************************)
EXTENDS Integers, Sequences, FiniteSets, TLC

VARIABLES pc, fn, arg, ret, tried, dispatched, printed, mapped

vars == <<pc, fn, arg, ret, tried, dispatched, printed, mapped>>

(***************************************************************************)
(* Bounds of the explored inputs.                                          *)
(***************************************************************************)
MaxTokenPieces == 3
MaxPieces == 4
MaxWs == 2
MaxBatch == 3

(***************************************************************************)
(* Text.                                                                   *)
(***************************************************************************)
TAB == "\t"
SPC == " "
NL  == "\n"
CR  == "\r"

IsWhitespace(c) == c \in {SPC, TAB, NL, CR}

INFO  == <<"I", "N", "F", "O">>
WARN  == <<"W", "A", "R", "N">>
ERROR == <<"E", "R", "R", "O", "R">>

RECURSIVE Flatten(_)
Flatten(ss) == IF ss = <<>> THEN <<>> ELSE Head(ss) \o Flatten(Tail(ss))

SeqsUpTo(S, n) == UNION {[1..k -> S] : k \in 0..n}

(***************************************************************************)
(* Result<T> and Option<T>.                                                *)
(***************************************************************************)
Ok(v)   == [ok |-> v]
Err(m)  == [err |-> m]
IsOk(r) == DOMAIN r = {"ok"}
IsErr(r) == DOMAIN r = {"err"}

Some(v) == <<v>>
None    == <<>>

(***************************************************************************)
(* LogLevel, its Serialize names and TryFrom<String>.                      *)
(***************************************************************************)
LogLevel == {"Info", "Warn", "Error"}

Serialize(level) ==
    CASE level = "Info"  -> INFO
      [] level = "Warn"  -> WARN
      [] level = "Error" -> ERROR

\* LogLevelTryFrom with the WARN and ERROR arms exchanged
LogLevelTryFrom_swapped(level) ==
    CASE level = INFO  -> Ok("Info")
      [] level = WARN  -> Ok("Error")
      [] level = ERROR -> Ok("Warn")
      [] OTHER -> Err([msg |-> "Unable to parse {} as LogLevel", token |-> level])

LogLevelTryFrom(level) ==
    CASE level = INFO  -> Ok("Info")
      [] level = WARN  -> Ok("Warn")
      [] level = ERROR -> Ok("Error")
      [] OTHER -> Err([msg |-> "Unable to parse {} as LogLevel", token |-> level])

(***************************************************************************)
(* serde_json::Value, as far as RawCloudWatchLog.record needs it.          *)
(***************************************************************************)
String(s)   == [String |-> s]
Number(n)   == [Number |-> n]
Array(vs)   == [Array |-> vs]
Object(kvs) == [Object |-> kvs]
Bool(b)     == [Bool |-> b]
Null        == [Null |-> TRUE]
IsString(v) == DOMAIN v = {"String"}

RawCloudWatchLog(time, type, record) ==
    [time |-> time, type |-> type, record |-> record]

StructuredLog(timestamp, guid, level, data) ==
    [timestamp |-> timestamp, guid |-> guid, level |-> level, data |-> data]

Unformatted(log) == [Unformatted |-> log]
Formatted(value) == [Formatted |-> value]
IsUnformatted(l) == DOMAIN l = {"Unformatted"}
IsFormatted(l)   == DOMAIN l = {"Formatted"}

(***************************************************************************)
(* node::parse, the tab-delimited recognizer.  The payload is cut at its   *)
(* first three tabs; the fourth segment is the remainder.                  *)
(***************************************************************************)
RECURSIVE IndexFrom(_, _, _)
IndexFrom(s, c, i) ==
    IF i > Len(s) THEN 0
    ELSE IF s[i] = c THEN i
    ELSE IndexFrom(s, c, i + 1)

node_parse(log) ==
    IF ~IsString(log.record) THEN None
    ELSE
    LET s  == log.record.String
        t1 == IndexFrom(s, TAB, 1)
        t2 == IF t1 = 0 THEN 0 ELSE IndexFrom(s, TAB, t1 + 1)
        t3 == IF t2 = 0 THEN 0 ELSE IndexFrom(s, TAB, t2 + 1)
    IN  IF t3 = 0 THEN None
        ELSE LET level == LogLevelTryFrom(SubSeq(s, t2 + 1, t3 - 1))
             IN  IF IsErr(level) THEN None
                 ELSE Some(Unformatted(StructuredLog(
                          Some(SubSeq(s, 1, t1 - 1)),
                          Some(SubSeq(s, t1 + 1, t2 - 1)),
                          Some(level.ok),
                          String(SubSeq(s, t3 + 1, Len(s))))))

(***************************************************************************)
(* python::parse, the bracketed-level recognizer:                          *)
(*   "[" level "]" TAB timestamp whitespace+ guid TAB message              *)
(* timestamp and guid are the maximal runs of non-whitespace characters.   *)
(***************************************************************************)
RECURSIVE SkipWhile(_, _, _)
SkipWhile(s, i, ws) ==
    IF i > Len(s) \/ IsWhitespace(s[i]) # ws THEN i
    ELSE SkipWhile(s, i + 1, ws)

python_parse(log) ==
    IF ~IsString(log.record) THEN None
    ELSE
    LET s     == log.record.String
        close == IndexFrom(s, "]", 2)
    IN  IF Len(s) = 0 \/ s[1] # "[" \/ close = 0 THEN None
        ELSE
        LET level == LogLevelTryFrom(SubSeq(s, 2, close - 1))
            ts    == close + 2
            ws    == SkipWhile(s, ts, FALSE)
            id    == SkipWhile(s, ws, TRUE)
            tab   == SkipWhile(s, id, FALSE)
        IN  IF \/ IsErr(level)
               \/ close + 1 > Len(s) \/ s[close + 1] # TAB
               \/ ws = ts
               \/ id = ws
               \/ tab = id
               \/ tab > Len(s) \/ s[tab] # TAB
            THEN None
            ELSE Some(Unformatted(StructuredLog(
                     Some(SubSeq(s, ts, ws - 1)),
                     Some(SubSeq(s, id, tab - 1)),
                     Some(level.ok),
                     String(SubSeq(s, tab + 1, Len(s))))))

(***************************************************************************)
(* serde_json::from_str on the explored alphabet: whitespace, the three    *)
(* literals, unsigned integers, strings without escapes, arrays, objects.  *)
(* A parser returns [v, i]: the value and the position after it, or Fail.  *)
(***************************************************************************)
Fail == [fail |-> TRUE]
Failed(r) == DOMAIN r = {"fail"}
At(v, i) == [v |-> v, i |-> i]

Digits == {"0", "1", "2", "3", "4", "5", "6", "7", "8", "9"}
DigitValue(c) ==
    CASE c = "0" -> 0 [] c = "1" -> 1 [] c = "2" -> 2 [] c = "3" -> 3
      [] c = "4" -> 4 [] c = "5" -> 5 [] c = "6" -> 6 [] c = "7" -> 7
      [] c = "8" -> 8 [] c = "9" -> 9

JsonWs(s, i) == SkipWhile(s, i, TRUE)

StartsWith(s, i, lit) ==
    /\ i + Len(lit) - 1 <= Len(s)
    /\ SubSeq(s, i, i + Len(lit) - 1) = lit

RECURSIVE JsonDigits(_, _, _)
JsonDigits(s, i, acc) ==
    IF i <= Len(s) /\ s[i] \in Digits
    THEN JsonDigits(s, i + 1, acc * 10 + DigitValue(s[i]))
    ELSE At(Number(acc), i)

JsonNumber(s, i) ==
    IF s[i] = "0"
    THEN IF i + 1 <= Len(s) /\ s[i + 1] \in Digits THEN Fail
         ELSE At(Number(0), i + 1)
    ELSE JsonDigits(s, i, 0)

\* the closing quote of the string opened before position i, 0 if the
\* string holds a control character, an escape, or never closes
RECURSIVE JsonStringEnd(_, _)
JsonStringEnd(s, i) ==
    IF i > Len(s) THEN 0
    ELSE IF s[i] = "\"" THEN i
    ELSE IF s[i] \in {TAB, NL, CR, "\\"} THEN 0
    ELSE JsonStringEnd(s, i + 1)

JsonString(s, i) ==
    LET e == JsonStringEnd(s, i + 1)
    IN  IF e = 0 THEN Fail ELSE At(String(SubSeq(s, i + 1, e - 1)), e + 1)

\* a map with key k set to v, a later duplicate key replacing the earlier
MapInsert(m, k, v) ==
    [x \in DOMAIN m \cup {k} |-> IF x = k THEN v ELSE m[x]]

RECURSIVE JsonValue(_, _), JsonElements(_, _, _), JsonMembers(_, _, _)
JsonValue(s, i0) ==
    LET i == JsonWs(s, i0)
    IN  IF i > Len(s) THEN Fail
        ELSE IF StartsWith(s, i, <<"n", "u", "l", "l">>) THEN At(Null, i + 4)
        ELSE IF StartsWith(s, i, <<"t", "r", "u", "e">>) THEN At(Bool(TRUE), i + 4)
        ELSE IF StartsWith(s, i, <<"f", "a", "l", "s", "e">>) THEN At(Bool(FALSE), i + 5)
        ELSE IF s[i] \in Digits THEN JsonNumber(s, i)
        ELSE IF s[i] = "\"" THEN JsonString(s, i)
        ELSE IF s[i] = "["
             THEN LET j == JsonWs(s, i + 1)
                  IN  IF j <= Len(s) /\ s[j] = "]" THEN At(Array(<<>>), j + 1)
                      ELSE JsonElements(s, j, <<>>)
        ELSE IF s[i] = "{"
             THEN LET j == JsonWs(s, i + 1)
                  IN  IF j <= Len(s) /\ s[j] = "}" THEN At(Object(<<>>), j + 1)
                      ELSE JsonMembers(s, j, <<>>)
        ELSE Fail

\* the elements of an array from position i on, acc holding those before
JsonElements(s, i, acc) ==
    LET e == JsonValue(s, i)
    IN  IF Failed(e) THEN Fail
        ELSE LET j == JsonWs(s, e.i)
             IN  IF j > Len(s) THEN Fail
                 ELSE IF s[j] = "]" THEN At(Array(Append(acc, e.v)), j + 1)
                 ELSE IF s[j] = "," THEN JsonElements(s, j + 1, Append(acc, e.v))
                 ELSE Fail

\* the members of an object from position i on, acc holding those before
JsonMembers(s, i0, acc) ==
    LET i == JsonWs(s, i0)
    IN  IF i > Len(s) \/ s[i] # "\"" THEN Fail
        ELSE
        LET k == JsonString(s, i)
        IN  IF Failed(k) THEN Fail
            ELSE
            LET c == JsonWs(s, k.i)
            IN  IF c > Len(s) \/ s[c] # ":" THEN Fail
                ELSE
                LET e == JsonValue(s, c + 1)
                IN  IF Failed(e) THEN Fail
                    ELSE
                    LET j == JsonWs(s, e.i)
                        m == MapInsert(acc, k.v.String, e.v)
                    IN  IF j > Len(s) THEN Fail
                        ELSE IF s[j] = "}" THEN At(Object(m), j + 1)
                        ELSE IF s[j] = "," THEN JsonMembers(s, j + 1, m)
                        ELSE Fail

\* Ok(value) when s is one value between optional whitespace, Err otherwise
from_str(s) ==
    LET r == JsonValue(s, 1)
    IN  IF Failed(r) THEN Err("syntax")
        ELSE IF JsonWs(s, r.i) <= Len(s) THEN Err("trailing characters")
        ELSE Ok(r.v)

(***************************************************************************)
(* dotnet::parse, the passthrough recognizer.                              *)
(***************************************************************************)
dotnet_parse(log) ==
    IF ~IsString(log.record) THEN None
    ELSE LET r == from_str(log.record.String)
         IN  IF IsErr(r) THEN None ELSE Some(Formatted(r.ok))

(***************************************************************************)
(* try_parse_cloudwatch_log, the dispatcher: [ret, tried].                 *)
(***************************************************************************)
Returned(r, t) == [ret |-> r, tried |-> t]

\* the dispatcher with the python arm placed before the node arm
try_parse_python_first(log) ==
    LET p == python_parse(log)
    IN  IF p # None THEN Returned(Ok(p[1]), <<"python">>)
        ELSE
        LET n == node_parse(log)
        IN  IF n # None THEN Returned(Ok(n[1]), <<"python", "node">>)
            ELSE
            LET d == dotnet_parse(log)
            IN  IF d # None THEN Returned(Ok(d[1]), <<"python", "node", "dotnet">>)
                ELSE Returned(Err([msg |-> "Unable to parse {:?}", log |-> log]),
                              <<"python", "node", "dotnet">>)

\* the dispatcher without its python arm
try_parse_without_python(log) ==
    LET n == node_parse(log)
    IN  IF n # None THEN Returned(Ok(n[1]), <<"node">>)
        ELSE
        LET d == dotnet_parse(log)
        IN  IF d # None THEN Returned(Ok(d[1]), <<"node", "dotnet">>)
            ELSE Returned(Err([msg |-> "Unable to parse {:?}", log |-> log]),
                          <<"node", "dotnet">>)

\* the dispatcher without its dotnet arm
try_parse_without_dotnet(log) ==
    LET n == node_parse(log)
    IN  IF n # None THEN Returned(Ok(n[1]), <<"node">>)
        ELSE
        LET p == python_parse(log)
        IN  IF p # None THEN Returned(Ok(p[1]), <<"node", "python">>)
            ELSE Returned(Err([msg |-> "Unable to parse {:?}", log |-> log]),
                          <<"node", "python">>)

\* the dispatcher wrapping a passthrough value in a StructuredLog stamped
\* with the record's time
try_parse_rewrapping(log) ==
    LET n == node_parse(log)
    IN  IF n # None THEN Returned(Ok(n[1]), <<"node">>)
        ELSE
        LET p == python_parse(log)
        IN  IF p # None THEN Returned(Ok(p[1]), <<"node", "python">>)
            ELSE
            LET d == dotnet_parse(log)
            IN  IF d # None
                THEN Returned(Ok(Unformatted(StructuredLog(
                                  Some(log.time), None, None, d[1].Formatted))),
                              <<"node", "python", "dotnet">>)
                ELSE Returned(Err([msg |-> "Unable to parse {:?}", log |-> log]),
                              <<"node", "python", "dotnet">>)

\* the dispatcher giving up as soon as the node arm declines
try_parse_stop_after_node(log) ==
    LET n == node_parse(log)
    IN  IF n # None THEN Returned(Ok(n[1]), <<"node">>)
        ELSE Returned(Err([msg |-> "Unable to parse {:?}", log |-> log]), <<"node">>)

try_parse_cloudwatch_log(log) ==
    LET n == node_parse(log)
    IN  IF n # None THEN Returned(Ok(n[1]), <<"node">>)
        ELSE
        LET p == python_parse(log)
        IN  IF p # None THEN Returned(Ok(p[1]), <<"node", "python">>)
            ELSE
            LET d == dotnet_parse(log)
            IN  IF d # None THEN Returned(Ok(d[1]), <<"node", "python", "dotnet">>)
                ELSE Returned(Err([msg |-> "Unable to parse {:?}", log |-> log]),
                              <<"node", "python", "dotnet">>)

(***************************************************************************)
(* parse: filter on the type, map through the dispatcher, flatten (which   *)
(* keeps the Ok values and drops the Err ones), collect.                   *)
(***************************************************************************)
\* the type test ignoring the case of the first letter
IsFunction_any_case(log) == log.type \in {"function", "Function"}

IsFunction(log) == log.type = "function"

filter(logs) == SelectSeq(logs, IsFunction)

NotFunction(log) == ~IsFunction(log)

println(logs) == SelectSeq(logs, NotFunction)

\* the map closure handing every record to the dispatcher
map_one_any_record(log) ==
    [res |-> try_parse_cloudwatch_log(log).ret, dispatched |-> <<log>>]

\* the map closure on one record: its result and the dispatcher calls it made
map_one(log) ==
    IF IsString(log.record)
    THEN [res |-> try_parse_cloudwatch_log(log).ret, dispatched |-> <<log>>]
    ELSE [res |-> Err([msg |-> "Expected String {}", record |-> log.record]),
          dispatched |-> <<>>]

map(logs) == [i \in 1..Len(logs) |-> map_one(logs[i])]

\* flatten ending at the first Err
RECURSIVE flatten_until_err(_)
flatten_until_err(results) ==
    IF results = <<>> THEN <<>>
    ELSE IF IsOk(Head(results))
         THEN <<Head(results).ok>> \o flatten_until_err(Tail(results))
    ELSE <<>>

RECURSIVE flatten(_)
flatten(results) ==
    IF results = <<>> THEN <<>>
    ELSE IF IsOk(Head(results)) THEN <<Head(results).ok>> \o flatten(Tail(results))
    ELSE flatten(Tail(results))

\* the results of the map stage, and the dispatcher calls it made
results(m) == [i \in 1..Len(m) |-> m[i].res]

calls(m) == Flatten([i \in 1..Len(m) |-> m[i].dispatched])

collect(logs, m) ==
    [ret        |-> flatten(results(m)),
     mapped     |-> results(m),
     dispatched |-> calls(m),
     printed    |-> println(logs)]

parse(logs) == collect(logs, map(filter(logs)))

(***************************************************************************)
(* Inputs.                                                                 *)
(***************************************************************************)
TokenPieces ==
    { INFO, WARN, ERROR, <<"i", "n", "f", "o">>, <<"I">>, <<SPC>>, <<"[">>, <<"]">> }

Tokens == { Flatten(ps) : ps \in SeqsUpTo(TokenPieces, MaxTokenPieces) }

\* any text: up to MaxPieces pieces in any order
Pieces ==
    { <<TAB>>, <<SPC>>, INFO, <<"x">>, <<"[">>, <<"]">>, <<"1">>, <<"{">>, <<"}">>,
      <<"\"">> }

FreeText == { Flatten(ps) : ps \in SeqsUpTo(Pieces, MaxPieces) }

\* tab-delimited lines and their near misses
LevelTokens ==
    { INFO, WARN, ERROR, <<>>, <<"i", "n", "f", "o">>, INFO \o <<SPC>>, <<"x">> }

Fields == { <<>>, <<"t", "s">>, <<"i", SPC, "d">>, <<"[">> \o INFO \o <<"]">> }

Messages ==
    { <<>>, <<"m", NL>>, <<"m", TAB, "m", NL>>, <<TAB>>, INFO \o <<TAB, "m">>,
      <<"{", "}">>, <<"[", "1", "]">> }

TabText ==
    { a \o <<TAB>> \o b \o <<TAB>> \o tok \o <<TAB>> \o m :
        a \in Fields, b \in Fields, tok \in LevelTokens, m \in Messages }

\* bracketed-level lines and their near misses
WsRuns == UNION {[1..k -> {SPC, TAB, NL}] : k \in 0..MaxWs}

BracketText ==
    { <<"[">> \o tok \o <<"]">> \o sep \o ts \o ws \o id \o <<TAB>> \o m :
        tok \in {INFO, WARN, <<"x">>}, sep \in {<<TAB>>, <<SPC>>},
        ts \in {<<"t", "s">>, <<>>}, ws \in WsRuns,
        id \in {<<"i", "d">>, ERROR, <<>>}, m \in Messages }

\* structured-data documents and their near misses
JsonText ==
    { <<"1">>, <<"1", "0">>, <<"0", "1">>, <<SPC, "1", NL>>, <<"n", "u", "l", "l">>,
      <<"t", "r", "u", "e">>, <<"f", "a", "l", "s", "e">>, <<"n", "u", "l">>,
      <<"\"", "a", " ", "b", "\"">>, <<"\"", "a", TAB, "b", "\"">>,
      <<"[", "1", ",", SPC, "\"", "a", "\"", "]">>, <<"[", "1", ",", "]">>,
      <<"[", "[", "]", ",", "{", "}", "]">>, <<"[", "1", "]", "1">>,
      <<"{", "\"", "a", "\"", ":", "1", "}">>,
      <<"{", SPC, "\"", "a", "\"", SPC, ":", TAB, "1", ",", "\"", "b", "\"", ":",
        "[", "]", SPC, "}">>,
      <<"{", "\"", "a", "\"", ":", "1", ",", "\"", "a", "\"", ":", "2", "}">>,
      <<"{", "\"", "a", "\"", "1", "}">>, <<"{", "a", ":", "1", "}">>,
      <<"B", "a", "d", SPC, "l", "o", "g">> }

Payloads == FreeText \cup TabText \cup BracketText \cup JsonText

Logs ==
    { RawCloudWatchLog("2020-11-18T23:52:30.128Z", "", String(p)) : p \in Payloads }

\* the records of a batch: each kind of payload under each kind of type
BatchRecords ==
    { String(<<"t", "s", TAB, "i", "d", TAB>> \o INFO \o <<TAB, "m", NL>>),
      String(<<"{", "}">>),
      String(<<"B", "a", "d">>),
      Number(1),
      Object(<<>>) }

BatchLogs ==
    { RawCloudWatchLog("t", "function", r) : r \in BatchRecords }
    \cup { RawCloudWatchLog("t", "platform.start", r) :
             r \in { String(<<"t", "s", TAB, "i", "d", TAB>> \o INFO \o <<TAB, "m", NL>>),
                     Number(1) } }
    \cup { RawCloudWatchLog("t", "Function", String(<<"{", "}">>)) }

Batches == SeqsUpTo(BatchLogs, MaxBatch)

Calls ==
    ({"try_from"} \X Tokens)
    \cup ({"try_parse_cloudwatch_log"} \X Logs)
    \cup ({"parse"} \X Batches)

(***************************************************************************)
(* The calls.                                                              *)
(***************************************************************************)
Init ==
    /\ pc = "ready"
    /\ \E c \in Calls : fn = c[1] /\ arg = c[2]
    /\ ret = <<>>
    /\ tried = <<>>
    /\ dispatched = <<>>
    /\ printed = <<>>
    /\ mapped = <<>>

TryFrom ==
    /\ pc = "ready"
    /\ fn = "try_from"
    /\ pc' = "done"
    /\ ret' = LogLevelTryFrom(arg)
    /\ UNCHANGED <<fn, arg, tried, dispatched, printed, mapped>>

TryParse ==
    /\ pc = "ready"
    /\ fn = "try_parse_cloudwatch_log"
    /\ pc' = "done"
    /\ LET r == try_parse_cloudwatch_log(arg)
       IN  ret' = r.ret /\ tried' = r.tried
    /\ UNCHANGED <<fn, arg, dispatched, printed, mapped>>

Parse ==
    /\ pc = "ready"
    /\ fn = "parse"
    /\ pc' = "done"
    /\ LET r == parse(arg)
       IN  /\ ret' = r.ret
           /\ mapped' = r.mapped
           /\ dispatched' = r.dispatched
           /\ printed' = r.printed
    /\ UNCHANGED <<fn, arg, tried>>

Next == TryFrom \/ TryParse \/ Parse

Spec == Init /\ [][Next]_vars

(***************************************************************************)
(* Properties.                                                             *)
(***************************************************************************)
Done(f) == pc = "done" /\ fn = f

Text(log) == log.record.String

NoFormatMatched(log) == Err([msg |-> "Unable to parse {:?}", log |-> log])

NonTextPayload(record) == Err([msg |-> "Expected String {}", record |-> record])

\* the level a token spells, "" for any other token
LevelOf(token) ==
    IF token = <<"I", "N", "F", "O">> THEN "Info"
    ELSE IF token = <<"W", "A", "R", "N">> THEN "Warn"
    ELSE IF token = <<"E", "R", "R", "O", "R">> THEN "Error"
    ELSE ""

NoTab(s, a, b) == \A x \in a..b : s[x] # TAB

\* C6: the level parser returns Info, Warn, Error for exactly the tokens
\* "INFO", "WARN", "ERROR", fails with an error carrying the token for every
\* other token, and parsing the serialized name of a level returns that level.
C6_LevelCodeExact ==
    Done("try_from") =>
        /\ LevelOf(arg) # "" => ret = Ok(LevelOf(arg))
        /\ LevelOf(arg) = "" => IsErr(ret) /\ ret.err.token = arg
        /\ \A l \in LogLevel : arg = Serialize(l) => ret = Ok(l)

C6_Witness ==
    /\ Done("try_from")
    /\ arg = <<"i", "n", "f", "o">>
    /\ IsErr(ret)

\* C1: the dispatcher runs the recognizers in the order node, python, dotnet,
\* stops at the first that does not decline and returns exactly its result.
C1_FirstMatchWins ==
    Done("try_parse_cloudwatch_log") =>
        LET n == node_parse(arg)
            p == python_parse(arg)
            d == dotnet_parse(arg)
        IN  /\ n # None => ret = Ok(n[1]) /\ tried = <<"node">>
            /\ n = None /\ p # None =>
                   ret = Ok(p[1]) /\ tried = <<"node", "python">>
            /\ n = None /\ p = None /\ d # None =>
                   ret = Ok(d[1]) /\ tried = <<"node", "python", "dotnet">>

C1_Witness ==
    /\ Done("try_parse_cloudwatch_log")
    /\ node_parse(arg) # None
    /\ python_parse(arg) # None
    /\ node_parse(arg) # python_parse(arg)
    /\ ret = Ok(node_parse(arg)[1])

\* C2: the dispatcher fails if and only if all three recognizers decline, and
\* the error then carries the record it was given.
C2_ErrIffAllDecline ==
    Done("try_parse_cloudwatch_log") =>
        /\ IsErr(ret) <=>
               /\ node_parse(arg) = None
               /\ python_parse(arg) = None
               /\ dotnet_parse(arg) = None
        /\ IsErr(ret) => ret = NoFormatMatched(arg)
        /\ ~IsErr(ret) => IsOk(ret)

C2_Witness ==
    /\ Done("try_parse_cloudwatch_log")
    /\ Text(arg) = <<"B", "a", "d", SPC, "l", "o", "g">>
    /\ ret = NoFormatMatched(arg)

\* the positions of the first three tabs of s, when it has three
FirstTab(s, from) ==
    { i \in from..Len(s) : s[i] = TAB /\ NoTab(s, from, i - 1) }

TabCuts(s) ==
    UNION { UNION { { <<i, j, k>> : k \in FirstTab(s, j + 1) } :
                    j \in FirstTab(s, i + 1) } :
            i \in FirstTab(s, 1) }

\* s is tab-delimited: three tabs at least, and a level between the second
\* and the third
TabDelimited(s) ==
    \E c \in TabCuts(s) : LevelOf(SubSeq(s, c[2] + 1, c[3] - 1)) # ""

\* C7: a payload with at least three tabs whose third tab-separated segment
\* is a level resolves to Unformatted holding the first segment, the second
\* segment, the level and everything after the third tab.
C7_TabDelimitedFields ==
    Done("try_parse_cloudwatch_log") =>
        LET s == Text(arg)
        IN  \A c \in TabCuts(s) :
                LevelOf(SubSeq(s, c[2] + 1, c[3] - 1)) # "" =>
                    ret = Ok(Unformatted(StructuredLog(
                              Some(SubSeq(s, 1, c[1] - 1)),
                              Some(SubSeq(s, c[1] + 1, c[2] - 1)),
                              Some(LevelOf(SubSeq(s, c[2] + 1, c[3] - 1))),
                              String(SubSeq(s, c[3] + 1, Len(s))))))

C7_Witness ==
    /\ Done("try_parse_cloudwatch_log")
    /\ TabDelimited(Text(arg))
    /\ Text(arg) = <<"t", "s", TAB, "i", SPC, "d", TAB, "W", "A", "R", "N", TAB,
                     "m", TAB, "m", NL>>
    /\ ret = Ok(Unformatted(StructuredLog(
                  Some(<<"t", "s">>), Some(<<"i", SPC, "d">>), Some("Warn"),
                  String(<<"m", TAB, "m", NL>>))))

\* the first position from `from` on whose character is whitespace (w) or is
\* not (~w), every character before it being the other kind
FirstOf(s, from, w) ==
    { i \in from..Len(s) :
        /\ IsWhitespace(s[i]) = w
        /\ \A x \in from..(i - 1) : IsWhitespace(s[x]) # w }

\* the cuts of a bracketed-level line: the closing bracket, the first
\* whitespace after the timestamp, the start of the id, the tab after it
BracketCuts(s) ==
    IF Len(s) = 0 \/ s[1] # "[" THEN {}
    ELSE
    { c \in UNION { UNION { UNION { { <<close, b, d, e>> :
                                        e \in FirstOf(s, d, TRUE) } :
                                    d \in FirstOf(s, b, FALSE) } :
                            b \in FirstOf(s, close + 2, TRUE) } :
                    close \in { x \in 2..(Len(s) - 1) :
                                  /\ s[x] = "]"
                                  /\ s[x + 1] = TAB
                                  /\ LevelOf(SubSeq(s, 2, x - 1)) # "" } } :
        /\ c[2] > c[1] + 2
        /\ c[3] > c[2]
        /\ c[4] > c[3]
        /\ s[c[4]] = TAB }

BracketFields(s, c) ==
    StructuredLog(Some(SubSeq(s, c[1] + 2, c[2] - 1)),
                  Some(SubSeq(s, c[3], c[4] - 1)),
                  Some(LevelOf(SubSeq(s, 2, c[1] - 1))),
                  String(SubSeq(s, c[4] + 1, Len(s))))

\* C8 as stated: whatever whitespace separates the timestamp from the id of
\* a bracketed-level line, the line resolves to the timestamp, the id, the
\* level and the message.
C8_AnyBracketedLine ==
    Done("try_parse_cloudwatch_log") =>
        \A c \in BracketCuts(Text(arg)) :
            ret = Ok(Unformatted(BracketFields(Text(arg), c)))

\* C8, amended: whatever whitespace separates the timestamp from the id of a
\* bracketed-level line that is not also tab-delimited, the line resolves to
\* the timestamp, the id, the level and the message.
C8_BracketedFields ==
    Done("try_parse_cloudwatch_log") =>
        \A c \in BracketCuts(Text(arg)) :
            ~TabDelimited(Text(arg)) =>
                ret = Ok(Unformatted(BracketFields(Text(arg), c)))

C8_Witness ==
    /\ Done("try_parse_cloudwatch_log")
    /\ BracketCuts(Text(arg)) # {}
    /\ ~TabDelimited(Text(arg))
    /\ Text(arg) = <<"[", "I", "N", "F", "O", "]", TAB, "t", "s", TAB, NL,
                     "i", "d", TAB, "m", TAB, "m", NL>>
    /\ ret = Ok(Unformatted(StructuredLog(
                  Some(<<"t", "s">>), Some(<<"i", "d">>), Some("Info"),
                  String(<<"m", TAB, "m", NL>>))))

\* C9: a payload that is a structured-data document and that neither the
\* node nor the python recognizer accepts resolves to Formatted holding the
\* parsed value and nothing else.
C9_Passthrough ==
    Done("try_parse_cloudwatch_log") =>
        LET v == from_str(Text(arg))
        IN  IsOk(v) /\ node_parse(arg) = None /\ python_parse(arg) = None =>
                /\ ret = Ok(Formatted(v.ok))
                /\ tried = <<"node", "python", "dotnet">>

C9_Witness ==
    /\ Done("try_parse_cloudwatch_log")
    /\ Text(arg) = <<"{", SPC, "\"", "a", "\"", SPC, ":", TAB, "1", ",",
                     "\"", "b", "\"", ":", "[", "]", SPC, "}">>
    /\ ret = Ok(Formatted(Object(
                  (<<"a">> :> Number(1)) @@ (<<"b">> :> Array(<<>>)))))

\* s opens with a bracketed token that is not a level
BadBracketLevel(s) ==
    /\ Len(s) > 0
    /\ s[1] = "["
    /\ \E x \in 2..Len(s) :
           /\ s[x] = "]"
           /\ \A y \in 2..(x - 1) : s[y] # "]"
           /\ LevelOf(SubSeq(s, 2, x - 1)) = ""

\* C10: a level that fails to parse, or a missing segment, makes the
\* recognizer decline and the next ones run: the dispatcher then returns a
\* later recognizer's result or the no-format-matched error, and the only
\* errors a record produces are that one and the expected-string one.
C10_DeclineNotError ==
    /\ Done("try_parse_cloudwatch_log") =>
           LET s == Text(arg)
               p == python_parse(arg)
               d == dotnet_parse(arg)
           IN  /\ IsErr(ret) => ret = NoFormatMatched(arg)
               /\ ~TabDelimited(s) =>
                      /\ Len(tried) >= 2
                      /\ tried[1] = "node"
                      /\ tried[2] = "python"
                      /\ \/ p # None /\ ret = Ok(p[1])
                         \/ d # None /\ ret = Ok(d[1])
                         \/ ret = NoFormatMatched(arg)
               /\ ~TabDelimited(s) /\ BadBracketLevel(s) =>
                      /\ tried = <<"node", "python", "dotnet">>
                      /\ \/ d # None /\ ret = Ok(d[1])
                         \/ ret = NoFormatMatched(arg)
    /\ Done("parse") =>
           \A i \in 1..Len(mapped) :
               IsErr(mapped[i]) =>
                   mapped[i].err.msg \in {"Unable to parse {:?}", "Expected String {}"}

C10_Witness ==
    /\ Done("try_parse_cloudwatch_log")
    /\ TabCuts(Text(arg)) # {}
    /\ ~TabDelimited(Text(arg))
    /\ Text(arg) = <<"1", TAB, TAB, TAB>>
    /\ tried = <<"node", "python", "dotnet">>
    /\ ret = Ok(Formatted(Number(1)))

Remove(seq, i) == SubSeq(seq, 1, i - 1) \o SubSeq(seq, i + 1, Len(seq))

\* how many of the first i records of a batch have the type "function"
Rank(logs, i) == Cardinality({ x \in 1..i : logs[x].type = "function" })

\* C3: a record whose type is not "function" never reaches the dispatcher
\* and adds nothing to the output, whatever its payload.
C3_OtherTypesExcluded ==
    Done("parse") =>
        /\ \A j \in 1..Len(dispatched) : dispatched[j].type = "function"
        /\ Len(ret) <= Rank(arg, Len(arg))
        /\ \A i \in 1..Len(arg) :
               arg[i].type # "function" => ret = parse(Remove(arg, i)).ret

C3_Witness ==
    /\ Done("parse")
    /\ Len(arg) = 2
    /\ arg[1].type = "platform.start"
    /\ IsString(arg[1].record)
    /\ node_parse(arg[1]) # None
    /\ arg[2].type = "function"
    /\ Len(ret) = 1
    /\ dispatched = <<arg[2]>>

\* C4: a "function" record whose payload is not text never reaches the
\* dispatcher; it yields the expected-string error, which is dropped, and
\* adds nothing to the output.
C4_NonTextDropped ==
    Done("parse") =>
        /\ \A j \in 1..Len(dispatched) : IsString(dispatched[j].record)
        /\ \A i \in 1..Len(arg) :
               arg[i].type = "function" /\ ~IsString(arg[i].record) =>
                   /\ mapped[Rank(arg, i)] = NonTextPayload(arg[i].record)
                   /\ ret = parse(Remove(arg, i)).ret

C4_Witness ==
    /\ Done("parse")
    /\ Len(arg) = 2
    /\ arg[1] = RawCloudWatchLog("t", "function", Object(<<>>))
    /\ arg[2] = RawCloudWatchLog("t", "function", String(<<"{", "}">>))
    /\ mapped[1] = NonTextPayload(Object(<<>>))
    /\ ret = <<Formatted(Object(<<>>))>>

\* what one record adds to the output
Contribution(log) ==
    IF /\ log.type = "function"
       /\ IsString(log.record)
       /\ IsOk(try_parse_cloudwatch_log(log).ret)
    THEN <<try_parse_cloudwatch_log(log).ret.ok>>
    ELSE <<>>

\* C5: the output of parse is the concatenation, in input order, of what
\* each record adds: one entry for a "function" record with a text payload
\* the dispatcher resolves, none otherwise; so it is no longer than the
\* input, and parse(a ++ b) = parse(a) ++ parse(b).
C5_PerRecord ==
    Done("parse") =>
        /\ ret = Flatten([i \in 1..Len(arg) |-> Contribution(arg[i])])
        /\ Len(ret) <= Len(arg)
        /\ \A k \in 0..Len(arg) :
               ret = parse(SubSeq(arg, 1, k)).ret
                     \o parse(SubSeq(arg, k + 1, Len(arg))).ret

C5_Witness ==
    /\ Done("parse")
    /\ Len(arg) = 3
    /\ arg[2] = RawCloudWatchLog("t", "function", String(<<"B", "a", "d">>))
    /\ Len(ret) = 2
    /\ IsFormatted(ret[1])
    /\ IsUnformatted(ret[2])

====
